---- MODULE Spec2Model ----
(***************************************************************************)
(* Model of consensus/istanbul/backend/snapshot.go: the validator voting   *)
(* snapshot, its vote tally and the folding of headers into a snapshot.    *)
(*                                                                         *)
(* Go values that are shared by reference (the Tally map, the backing      *)
(* array of the Votes slice, the validator set) live in a heap and are     *)
(* named by references, so that aliasing between snapshots is expressible. *)
(* The database of store and loadSnapshot holds, under each hash, the JSON *)
(* document MarshalJSON wrote.                                             *)
(***************************************************************************)
EXTENDS Integers, Sequences, FiniteSets, TLC

VARIABLES held, born, heap, last, disk

vars == <<held, born, heap, last, disk>>

(* ------------------------------ bounds --------------------------------- *)

\* Highest block number a header offered to apply may carry.
MaxNumber == 2
\* Longest header run handed to one apply call.
MaxRun == 2
\* Number of snapshots the callers keep alive at the same time.
MaxHeld == 2
\* Highest block number offered where single headers are folded over a
\* larger set of identities.
MaxDeep == 3
\* Number of keys the database holds.
MaxStored == 1
\* Highest block number offered where validators vote on two of four
\* identities only.
MaxStale == 6

(* ------------------------------ values --------------------------------- *)

\* common.Address: the identities that sign and are voted on in the runs
\* offered; 0 is the zero address common.Address{}.
Address == {1, 2}
ZeroAddress == 0

\* header.Nonce: nonceAuthVote, nonceDropVote, or any other 8 bytes.
Nonces == {"nonceAuthVote", "nonceDropVote", "nonceOther"}
\* ValidatorVote.VoteType: types.QbftAuthVote, types.QbftDropVote, or another tag.
VoteTypes == {"QbftAuthVote", "QbftDropVote", "QbftOther"}

\* Snapshot.Epoch values of the genesis snapshots: a checkpoint every second
\* block, and an epoch with no checkpoint among the offered block numbers.
Epochs == {2, 1000}

\* Validator sets of the genesis snapshots.
GenesisValidators == {{1}, {1, 2}}

\* The zero value of *Vote slots of a backing array that were never written.
NilVote == [Validator |-> 0 - 1, Block |-> 0, Address |-> 0 - 1, Authorize |-> FALSE]

\* The zero value Tally{} that a Go map read returns for a missing key.
ZeroTally == [Authorize |-> FALSE, Votes |-> 0]

\* The nil slice: no backing array, length 0.
NilSlice == [arr |-> 0, len |-> 0]

(* ------------------------------- heap ---------------------------------- *)

\* x := v; F(x): the value v is computed once and F reads it under a name.
Bind(v, F(_)) == CHOOSE r \in {F(x) : x \in {v}} : TRUE

\* A fresh reference into one store of the heap: the least unused one.
NewRef(store) ==
    CHOOSE r \in 1..(Cardinality(DOMAIN store) + 1) :
        /\ r \notin DOMAIN store
        /\ \A q \in 1..(r - 1) : q \in DOMAIN store

\* cap(slice)
Cap(h, sl) == IF sl.arr = 0 THEN 0 ELSE Len(h.arr[sl.arr])

\* The elements of a slice, oldest first.
Elems(h, sl) == IF sl.arr = 0 THEN <<>> ELSE SubSeq(h.arr[sl.arr], 1, sl.len)

\* Go map read s.Tally[address]: the zero value when the key is absent.
TallyGet(t, address) == IF address \in DOMAIN t THEN t[address] ELSE ZeroTally

\* Go map write s.Tally[address] = v; also the store of a heap object at a
\* reference.
MapPut(t, address, v) == [a \in (DOMAIN t) \cup {address} |-> IF a = address THEN v ELSE t[a]]

\* The machine m (a snapshot being worked on, and the heap) with one part replaced.
WithArr(m, arr, votes) ==
    [snap |-> [Epoch |-> m.snap.Epoch, Number |-> m.snap.Number, Hash |-> m.snap.Hash,
               Votes |-> votes, Tally |-> m.snap.Tally, ValSet |-> m.snap.ValSet],
     heap |-> [vals |-> m.heap.vals, tally |-> m.heap.tally, arr |-> arr]]

WithTally(m, t) ==
    [snap |-> m.snap,
     heap |-> [vals |-> m.heap.vals, tally |-> MapPut(m.heap.tally, m.snap.Tally, t),
               arr |-> m.heap.arr]]

WithMembers(m, members) ==
    [snap |-> m.snap,
     heap |-> [vals |-> MapPut(m.heap.vals, m.snap.ValSet,
                               [members |-> members,
                                policy |-> m.heap.vals[m.snap.ValSet].policy]),
               tally |-> m.heap.tally, arr |-> m.heap.arr]]

\* Go delete(s.Tally, address).
MapDelete(t, address) == [a \in (DOMAIN t) \ {address} |-> t[a]]

\* The empty map make(map[common.Address]Tally).
EmptyMap == [a \in {} |-> ZeroTally]

\* append(s.Votes, v): in place when the backing array has room, otherwise
\* into a new array of doubled capacity.
AppendVote(m, v) ==
    LET sl == m.snap.Votes
        c == Cap(m.heap, sl)
    IN  IF sl.len < c
        THEN LET a == m.heap.arr[sl.arr]
                 new == [k \in 1..Len(a) |-> IF k = sl.len + 1 THEN v ELSE a[k]]
             IN  WithArr(m, MapPut(m.heap.arr, sl.arr, new),
                         [arr |-> sl.arr, len |-> sl.len + 1])
        ELSE LET ar == NewRef(m.heap.arr)
                 nc == IF c = 0 THEN 1 ELSE 2 * c
                 old == Elems(m.heap, sl)
                 new == [k \in 1..nc |-> IF k <= sl.len THEN old[k]
                                         ELSE IF k = sl.len + 1 THEN v ELSE NilVote]
             IN  WithArr(m, MapPut(m.heap.arr, ar, new), [arr |-> ar, len |-> sl.len + 1])

\* s.Votes = append(s.Votes[:i], s.Votes[i+1:]...): the elements after
\* position i move down one place inside the same backing array.
\* (i is 1-based here.)
DeleteVote(m, i) ==
    LET sl == m.snap.Votes
        a == m.heap.arr[sl.arr]
        new == [k \in 1..Len(a) |-> IF k >= i /\ k < sl.len THEN a[k + 1] ELSE a[k]]
    IN  WithArr(m, MapPut(m.heap.arr, sl.arr, new), [arr |-> sl.arr, len |-> sl.len - 1])

\* What a reader of the snapshot sees: every field with references followed.
View(h, s) ==
    [Epoch |-> s.Epoch, Number |-> s.Number, Hash |-> s.Hash,
     Votes |-> Elems(h, s.Votes),
     Tally |-> h.tally[s.Tally],
     Validators |-> h.vals[s.ValSet].members,
     Policy |-> h.vals[s.ValSet].policy]

(* ------------------- validator set (external capability) --------------- *)

\* ValidatorSet.GetByAddress(address): whether a validator was found.
GetByAddress(h, vs, address) == address \in h.vals[vs].members

\* ValidatorSet.Size()
Size(h, vs) == Cardinality(h.vals[vs].members)

\* ValidatorSet.AddValidator(address): no effect when already a member.
AddValidator(m, address) ==
    WithMembers(m, m.heap.vals[m.snap.ValSet].members \cup {address})

\* ValidatorSet.RemoveValidator(address): no effect when not a member.
RemoveValidator(m, address) ==
    WithMembers(m, m.heap.vals[m.snap.ValSet].members \ {address})

(* ------------------------------ Snapshot ------------------------------- *)

\* newSnapshot(epoch, number, hash, valSet): no votes (a nil slice) and a new,
\* empty tally map; the validator set is the one handed in.
newSnapshot(h, epoch, number, hash, valSet) ==
    LET tr == NewRef(h.tally)
    IN  [snap |-> [Epoch |-> epoch, Number |-> number, Hash |-> hash,
                   Votes |-> NilSlice, Tally |-> tr, ValSet |-> valSet],
         heap |-> [vals |-> h.vals, tally |-> MapPut(h.tally, tr, EmptyMap), arr |-> h.arr]]

\* The copy that shares the receiver's tally map instead of rebuilding it.
copySharingTally(h, s) ==
    LET vr == NewRef(h.vals)
        ar == NewRef(h.arr)
    IN  [snap |-> [Epoch |-> s.Epoch, Number |-> s.Number, Hash |-> s.Hash,
                   Votes |-> [arr |-> ar, len |-> s.Votes.len],
                   Tally |-> s.Tally, ValSet |-> vr],
         heap |-> [vals |-> MapPut(h.vals, vr, h.vals[s.ValSet]),
                   arr |-> MapPut(h.arr, ar, Elems(h, s.Votes)),
                   tally |-> h.tally]]

\* The copy that keeps the receiver's validator set instead of ValSet.Copy().
copySharingValSet(h, s) ==
    LET ar == NewRef(h.arr)
        tr == NewRef(h.tally)
    IN  [snap |-> [Epoch |-> s.Epoch, Number |-> s.Number, Hash |-> s.Hash,
                   Votes |-> [arr |-> ar, len |-> s.Votes.len],
                   Tally |-> tr, ValSet |-> s.ValSet],
         heap |-> [vals |-> h.vals,
                   arr |-> MapPut(h.arr, ar, Elems(h, s.Votes)),
                   tally |-> MapPut(h.tally, tr, h.tally[s.Tally])]]

\* Snapshot.copy: a new validator set (ValSet.Copy()), a new backing array of
\* len(s.Votes) vote pointers, a new tally map filled entry by entry.
copy(h, s) ==
    LET vr == NewRef(h.vals)
        ar == NewRef(h.arr)
        tr == NewRef(h.tally)
    IN  [snap |-> [Epoch |-> s.Epoch, Number |-> s.Number, Hash |-> s.Hash,
                   Votes |-> [arr |-> ar, len |-> s.Votes.len],
                   Tally |-> tr, ValSet |-> vr],
         heap |-> [vals |-> MapPut(h.vals, vr, h.vals[s.ValSet]),
                   arr |-> MapPut(h.arr, ar, Elems(h, s.Votes)),
                   tally |-> MapPut(h.tally, tr, h.tally[s.Tally])]]

\* A checkVote that accepts every vote.
checkVoteAlways(m, address, authorize) == TRUE

\* Snapshot.checkVote: whether the vote would change the authorization.
checkVote(m, address, authorize) ==
    LET validator == GetByAddress(m.heap, m.snap.ValSet, address)
    IN  (validator /\ ~authorize) \/ (~validator /\ authorize)

\* A cast that counts every vote, meaningful or not.
castUnchecked(m, address, authorize) ==
    LET t == m.heap.tally[m.snap.Tally]
    IN  IF address \in DOMAIN t
        THEN [m |-> WithTally(m, MapPut(t, address, [Authorize |-> t[address].Authorize,
                                                    Votes |-> t[address].Votes + 1])),
              ok |-> TRUE]
        ELSE [m |-> WithTally(m, MapPut(t, address, [Authorize |-> authorize, Votes |-> 1])),
              ok |-> TRUE]

\* Snapshot.cast: adds a new vote into the tally; ok is its return value.
cast(m, address, authorize) ==
    LET t == m.heap.tally[m.snap.Tally]
    IN  IF ~checkVote(m, address, authorize)
        THEN [m |-> m, ok |-> FALSE]
        ELSE IF address \in DOMAIN t
        THEN [m |-> WithTally(m, MapPut(t, address, [Authorize |-> t[address].Authorize,
                                                    Votes |-> t[address].Votes + 1])),
              ok |-> TRUE]
        ELSE [m |-> WithTally(m, MapPut(t, address, [Authorize |-> authorize, Votes |-> 1])),
              ok |-> TRUE]

\* An uncast that decrements down to 0 and keeps the entry.
uncastKeepingZero(m, address, authorize) ==
    LET t == m.heap.tally[m.snap.Tally]
    IN  IF address \notin DOMAIN t
        THEN [m |-> m, ok |-> FALSE]
        ELSE IF t[address].Authorize # authorize
        THEN [m |-> m, ok |-> FALSE]
        ELSE [m |-> WithTally(m, MapPut(t, address, [Authorize |-> t[address].Authorize,
                                                    Votes |-> t[address].Votes - 1])),
              ok |-> TRUE]

\* Snapshot.uncast: removes a previously cast vote from the tally.
uncast(m, address, authorize) ==
    LET t == m.heap.tally[m.snap.Tally]
    IN  IF address \notin DOMAIN t
        THEN [m |-> m, ok |-> FALSE]
        ELSE IF t[address].Authorize # authorize
        THEN [m |-> m, ok |-> FALSE]
        ELSE IF t[address].Votes > 1
        THEN [m |-> WithTally(m, MapPut(t, address, [Authorize |-> t[address].Authorize,
                                                    Votes |-> t[address].Votes - 1])),
              ok |-> TRUE]
        ELSE [m |-> WithTally(m, MapDelete(t, address)),
              ok |-> TRUE]

(* ------------------------------ headers -------------------------------- *)

\* ecrecoverFromSignedHeader(header): the signer of the header's seal, or an
\* error when the seal does not yield one.
ecrecoverFromSignedHeader(header) ==
    [addr |-> header.Seal,
     err |-> IF header.SealOK THEN "nil" ELSE "errInvalidSignature"]

\* ecrecoverFromCoinbase(header): the proposer named by the coinbase field.
ecrecoverFromCoinbase(header) == [addr |-> header.Coinbase, err |-> "nil"]

\* types.ExtractQbftExtra(header): the decoded extension data, or an error.
ExtractQbftExtra(header) ==
    [HasVote |-> header.HasVote, RecipientAddress |-> header.Recipient,
     VoteType |-> header.VoteType,
     err |-> IF header.ExtraOK THEN "nil" ELSE "errDecode"]

(* --------------------------- folding a header -------------------------- *)

\* A checkpoint test that finds no checkpoint.
isCheckpointNever(number, epoch) == FALSE

\* number % s.Epoch == 0
isCheckpoint(number, epoch) == number % epoch = 0

\* A signer check that lets every recovered signer through.
unauthorizedNever(m, validator) == FALSE

\* if _, v := s.ValSet.GetByAddress(validator); v == nil
unauthorized(m, validator) == ~GetByAddress(m.heap, m.snap.ValSet, validator)

\* s.Votes = nil; s.Tally = make(map[common.Address]Tally)
clearVotes(m) ==
    LET tr == NewRef(m.heap.tally)
    IN  [snap |-> [Epoch |-> m.snap.Epoch, Number |-> m.snap.Number, Hash |-> m.snap.Hash,
                   Votes |-> NilSlice, Tally |-> tr, ValSet |-> m.snap.ValSet],
         heap |-> [vals |-> m.heap.vals, tally |-> MapPut(m.heap.tally, tr, EmptyMap),
                   arr |-> m.heap.arr]]

\* Position of the first vote of validator on address in the log, 0 if none.
FirstVote(votes, validator, address) ==
    LET hits == {i \in 1..Len(votes) :
                    votes[i].Validator = validator /\ votes[i].Address = address}
    IN  IF hits = {} THEN 0 ELSE CHOOSE i \in hits : \A j \in hits : i <= j

\* A fold that leaves the validator's earlier vote on the same address in place.
discardPreviousNever(m, validator, address) == m

\* "Header authorized, discard any previous votes from the validator": the
\* first vote of validator on address is uncast and deleted, then the loop breaks.
discardPrevious(m, validator, address) ==
    LET votes == Elems(m.heap, m.snap.Votes)
        i == FirstVote(votes, validator, address)
    IN  IF i = 0 THEN m
        ELSE Bind(uncast(m, votes[i].Address, votes[i].Authorize).m,
                  LAMBDA m1 : DeleteVote(m1, i))

\* A resolution that keeps the votes the removed validator cast.
purgeVotesByNever(m, address, i) == m

\* A purge of the votes cast by address that leaves the tally as it is.
RECURSIVE purgeVotesByKeepingTally(_, _, _)
purgeVotesByKeepingTally(m, address, i) ==
    IF i > m.snap.Votes.len THEN m
    ELSE IF m.heap.arr[m.snap.Votes.arr][i].Validator = address
         THEN Bind(DeleteVote(m, i), LAMBDA m1 : purgeVotesByKeepingTally(m1, address, i))
         ELSE purgeVotesByKeepingTally(m, address, i + 1)

\* "Discard any previous votes the deauthorized validator cast": every vote
\* cast by address, from position i on, is uncast and deleted.
RECURSIVE purgeVotesBy(_, _, _)
purgeVotesBy(m, address, i) ==
    IF i > m.snap.Votes.len THEN m
    ELSE LET v == m.heap.arr[m.snap.Votes.arr][i]
         IN  IF v.Validator = address
             THEN Bind(uncast(m, v.Address, v.Authorize).m, LAMBDA m1 :
                  Bind(DeleteVote(m1, i), LAMBDA m2 : purgeVotesBy(m2, address, i)))
             ELSE purgeVotesBy(m, address, i + 1)

\* "Discard any previous votes around the just changed account": every vote
\* on address, from position i on, is deleted from the log.
RECURSIVE purgeVotesOn(_, _, _)
purgeVotesOn(m, address, i) ==
    IF i > m.snap.Votes.len THEN m
    ELSE IF m.heap.arr[m.snap.Votes.arr][i].Address = address
         THEN Bind(DeleteVote(m, i), LAMBDA m1 : purgeVotesOn(m1, address, i))
         ELSE purgeVotesOn(m, address, i + 1)

\* A majority test that also passes a tally of exactly half.
votePassedAtHalf(votes, size) == votes >= size \div 2

\* tally.Votes > s.ValSet.Size()/2
votePassed(votes, size) == votes > size \div 2

\* "If the vote passed, update the list of validators".
resolveVote(m, address) ==
    LET tally == TallyGet(m.heap.tally[m.snap.Tally], address)
    IN  IF votePassed(tally.Votes, Size(m.heap, m.snap.ValSet))
        THEN Bind(IF tally.Authorize
                  THEN AddValidator(m, address)
                  ELSE Bind(RemoveValidator(m, address),
                            LAMBDA m0 : purgeVotesBy(m0, address, 1)), LAMBDA m1 :
             Bind(purgeVotesOn(m1, address, 1), LAMBDA m2 :
                  WithTally(m2, MapDelete(m2.heap.tally[m2.snap.Tally], address))))
        ELSE m

\* What a fold leaves behind for inspection: the votes, tally and validators.
Brief(m) ==
    [Votes |-> Elems(m.heap, m.snap.Votes),
     Tally |-> m.heap.tally[m.snap.Tally],
     Validators |-> m.heap.vals[m.snap.ValSet].members]

\* The outcome of folding one header: the machine after it, the error, and
\* the snapshot as it stood before the fold (pre), after the checkpoint step
\* (clr), after the earlier vote was discarded (disc), after the vote was
\* cast (mid) and at the end (post).
Folded(m, err, number, qbft, signer, target, authorize, ok, pre, clr, disc, mid) ==
    [m |-> m, err |-> err, number |-> number, qbft |-> qbft, signer |-> signer,
     target |-> target, authorize |-> authorize, castOK |-> ok,
     pre |-> Brief(pre), clr |-> Brief(clr), disc |-> Brief(disc),
     mid |-> Brief(mid), post |-> Brief(m)]

\* Snapshot.legacyApply
legacyApply(m, header) ==
    LET number == header.Number
        coinbase == header.Coinbase
    IN  Bind(IF isCheckpoint(number, m.snap.Epoch) THEN clearVotes(m) ELSE m, LAMBDA m1 :
        Bind(ecrecoverFromSignedHeader(header), LAMBDA rec :
        IF rec.err # "nil"
        THEN Folded(m1, rec.err, number, FALSE, 0 - 1, coinbase, FALSE, FALSE, m, m1, m1, m1)
        ELSE IF unauthorized(m1, rec.addr)
        THEN Folded(m1, "errUnauthorized", number, FALSE, rec.addr, coinbase,
                    FALSE, FALSE, m, m1, m1, m1)
        ELSE
        Bind(discardPrevious(m1, rec.addr, coinbase), LAMBDA m2 :
        IF header.Nonce \notin {"nonceAuthVote", "nonceDropVote"}
        THEN Folded(m2, "errInvalidVote", number, FALSE, rec.addr, coinbase,
                    FALSE, FALSE, m, m1, m2, m2)
        ELSE
        Bind(header.Nonce = "nonceAuthVote", LAMBDA authorize :
        Bind(cast(m2, coinbase, authorize), LAMBDA c :
        Bind(IF c.ok
             THEN AppendVote(c.m, [Validator |-> rec.addr, Block |-> number,
                                   Address |-> coinbase, Authorize |-> authorize])
             ELSE c.m, LAMBDA m3 :
        Bind(resolveVote(m3, coinbase), LAMBDA m4 :
        Folded(m4, "nil", number, FALSE, rec.addr, coinbase, authorize,
               c.ok, m, m1, m2, m3))))))))

\* A structured fold that reads every embedded vote as a deauthorize vote.
qbftApplyAsDrop(m, header) ==
    legacyApply(m, [Number |-> header.Number, Hash |-> header.Hash, SealOK |-> TRUE,
                    Seal |-> header.Coinbase,
                    Coinbase |-> IF header.HasVote THEN header.Recipient ELSE ZeroAddress,
                    Nonce |-> IF header.ExtraOK THEN "nonceDropVote" ELSE "nonceOther",
                    ExtraOK |-> header.ExtraOK, HasVote |-> header.HasVote,
                    Recipient |-> header.Recipient, VoteType |-> header.VoteType])

\* A default vote that authorizes the zero address.
validatorVoteAuthorizing(qbftExtra) ==
    IF ~qbftExtra.HasVote
    THEN [RecipientAddress |-> ZeroAddress, VoteType |-> "QbftAuthVote"]
    ELSE [RecipientAddress |-> qbftExtra.RecipientAddress,
          VoteType |-> qbftExtra.VoteType]

\* validatorVote := qbftExtra.Vote, and where the header carries none, a
\* vote to drop the zero address.
validatorVote(qbftExtra) ==
    IF ~qbftExtra.HasVote
    THEN [RecipientAddress |-> ZeroAddress, VoteType |-> "QbftDropVote"]
    ELSE [RecipientAddress |-> qbftExtra.RecipientAddress,
          VoteType |-> qbftExtra.VoteType]

\* Snapshot.qbftApply
qbftApply(m, header) ==
    LET number == header.Number
        qbftExtra == ExtractQbftExtra(header)
        vote == validatorVote(qbftExtra)
        recipient == vote.RecipientAddress
    IN  Bind(IF isCheckpoint(number, m.snap.Epoch) THEN clearVotes(m) ELSE m, LAMBDA m1 :
        Bind(ecrecoverFromCoinbase(header), LAMBDA rec :
        IF rec.err # "nil"
        THEN Folded(m1, rec.err, number, TRUE, 0 - 1, 0 - 1, FALSE, FALSE, m, m1, m1, m1)
        ELSE IF unauthorized(m1, rec.addr)
        THEN Folded(m1, "errUnauthorized", number, TRUE, rec.addr, 0 - 1,
                    FALSE, FALSE, m, m1, m1, m1)
        ELSE IF qbftExtra.err # "nil"
        THEN Folded(m1, "errInvalidExtraDataFormat", number, TRUE, rec.addr, 0 - 1,
                    FALSE, FALSE, m, m1, m1, m1)
        ELSE
        Bind(discardPrevious(m1, rec.addr, recipient), LAMBDA m2 :
        IF vote.VoteType \notin {"QbftAuthVote", "QbftDropVote"}
        THEN Folded(m2, "errInvalidVote", number, TRUE, rec.addr, recipient,
                    FALSE, FALSE, m, m1, m2, m2)
        ELSE
        Bind(vote.VoteType = "QbftAuthVote", LAMBDA authorize :
        Bind(cast(m2, recipient, authorize), LAMBDA c :
        Bind(IF c.ok
             THEN AppendVote(c.m, [Validator |-> rec.addr, Block |-> number,
                                   Address |-> recipient, Authorize |-> authorize])
             ELSE c.m, LAMBDA m3 :
        Bind(resolveVote(m3, recipient), LAMBDA m4 :
        Folded(m4, "nil", number, TRUE, rec.addr, recipient, authorize,
               c.ok, m, m1, m2, m3))))))))

(* -------------------------------- apply -------------------------------- *)

\* A sanity check that only compares neighbouring headers.
validChainInnerOnly(headers, number) ==
    \A i \in 1..(Len(headers) - 1) : headers[i + 1].Number = headers[i].Number + 1

\* "Sanity check that the headers can be applied": the run is contiguous and
\* directly extends the snapshot.
validChain(headers, number) ==
    /\ \A i \in 1..(Len(headers) - 1) : headers[i + 1].Number = headers[i].Number + 1
    /\ headers[1].Number = number + 1

\* The observation kept of one folded header (the machine itself is dropped).
Observed(f) ==
    [err |-> f.err, number |-> f.number, qbft |-> f.qbft, signer |-> f.signer,
     target |-> f.target, authorize |-> f.authorize, castOK |-> f.castOK,
     pre |-> f.pre, clr |-> f.clr, disc |-> f.disc, mid |-> f.mid, post |-> f.post]

\* A loop that folds the first header of a run and skips the others.
foldHeadersFirstOnly(m, headers, i, isQBFTConsensus, qbftBlockNumber, folds) ==
    Bind(IF isQBFTConsensus /\ headers[1].Number > qbftBlockNumber
         THEN qbftApply(m, headers[1])
         ELSE legacyApply(m, headers[1]), LAMBDA f :
         [m |-> f.m, err |-> f.err, folds |-> <<Observed(f)>>])

\* "Iterate through the headers": each header is folded into snap by
\* qbftApply or legacyApply; the loop returns at the first error.
RECURSIVE foldHeaders(_, _, _, _, _, _)
foldHeaders(m, headers, i, isQBFTConsensus, qbftBlockNumber, folds) ==
    IF i > Len(headers) THEN [m |-> m, err |-> "nil", folds |-> folds]
    ELSE Bind(headers[i], LAMBDA header :
         Bind(IF isQBFTConsensus /\ header.Number > qbftBlockNumber
              THEN qbftApply(m, header)
              ELSE legacyApply(m, header), LAMBDA f :
         Bind(Append(folds, Observed(f)), LAMBDA seen :
              IF f.err # "nil"
              THEN [m |-> f.m, err |-> f.err, folds |-> seen]
              ELSE foldHeaders(f.m, headers, i + 1, isQBFTConsensus,
                               qbftBlockNumber, seen))))

\* An advance by one block, whatever the number of headers.
advanceByOne(snap, headers) ==
    [Epoch |-> snap.Epoch, Number |-> snap.Number + 1,
     Hash |-> headers[Len(headers)].Hash,
     Votes |-> snap.Votes, Tally |-> snap.Tally, ValSet |-> snap.ValSet]

\* snap.Number += uint64(len(headers)); snap.Hash = headers[len(headers)-1].Hash()
advance(snap, headers) ==
    [Epoch |-> snap.Epoch, Number |-> snap.Number + Len(headers),
     Hash |-> headers[Len(headers)].Hash,
     Votes |-> snap.Votes, Tally |-> snap.Tally, ValSet |-> snap.ValSet]

\* Snapshot.apply: the heap after the call, the error, whether a snapshot was
\* returned (returned = FALSE is the nil result) and the snapshot returned.
apply(h, s, headers, isQBFTConsensus, qbftBlockNumber) ==
    IF Len(headers) = 0
    THEN [heap |-> h, err |-> "nil", returned |-> TRUE, snap |-> s, folds |-> <<>>]
    ELSE IF ~validChain(headers, s.Number)
    THEN [heap |-> h, err |-> "errInvalidVotingChain", returned |-> FALSE,
          snap |-> s, folds |-> <<>>]
    ELSE Bind(copy(h, s), LAMBDA c :
         Bind(foldHeaders(c, headers, 1, isQBFTConsensus, qbftBlockNumber, <<>>),
              LAMBDA r :
              IF r.err # "nil"
              THEN [heap |-> r.m.heap, err |-> r.err, returned |-> FALSE,
                    snap |-> s, folds |-> r.folds]
              ELSE [heap |-> r.m.heap, err |-> "nil", returned |-> TRUE,
                    snap |-> advance(r.m.snap, headers), folds |-> r.folds]))

(* ------------------------- the offered headers ------------------------- *)

\* Header.Hash() of the offered headers.
HashOf(number, coinbase) == number * 4 + coinbase + 1

\* Headers of the legacy encoding at a block number: the seal names a signer
\* (never the zero address, whose key nobody holds) or is unrecoverable, the
\* coinbase names the target, the nonce the intent.
LegacyHeaders(number, addrs) ==
    {[Number |-> number, Hash |-> HashOf(number, cb), SealOK |-> TRUE, Seal |-> sg,
      Coinbase |-> cb, Nonce |-> nc, ExtraOK |-> FALSE, HasVote |-> FALSE,
      Recipient |-> ZeroAddress, VoteType |-> "QbftDropVote"] :
        sg \in addrs \ {ZeroAddress}, cb \in addrs, nc \in Nonces}
    \cup
    {[Number |-> number, Hash |-> HashOf(number, cb), SealOK |-> FALSE,
      Seal |-> ZeroAddress, Coinbase |-> cb, Nonce |-> "nonceAuthVote",
      ExtraOK |-> FALSE, HasVote |-> FALSE,
      Recipient |-> ZeroAddress, VoteType |-> "QbftDropVote"] : cb \in addrs}

\* Headers of the structured encoding at a block number: the coinbase names
\* the proposer; the extension data is undecodable, carries no vote, or
\* carries a vote.
QbftHeaders(number, addrs) ==
    {[Number |-> number, Hash |-> HashOf(number, cb), SealOK |-> FALSE,
      Seal |-> ZeroAddress, Coinbase |-> cb, Nonce |-> "nonceDropVote",
      ExtraOK |-> TRUE, HasVote |-> TRUE, Recipient |-> rc, VoteType |-> vt] :
        cb \in addrs \ {ZeroAddress}, rc \in addrs, vt \in VoteTypes}
    \cup
    {[Number |-> number, Hash |-> HashOf(number, cb), SealOK |-> FALSE,
      Seal |-> ZeroAddress, Coinbase |-> cb, Nonce |-> "nonceDropVote",
      ExtraOK |-> ok, HasVote |-> FALSE, Recipient |-> ZeroAddress,
      VoteType |-> "QbftDropVote"] : cb \in addrs \ {ZeroAddress}, ok \in BOOLEAN}

\* The consensus modes a caller passes, (isQBFTConsensus, qbftBlockNumber):
\* legacy throughout, or structured votes above a transition block below top.
Modes(top) ==
    {[isQBFT |-> FALSE, qbftBlock |-> 0]}
    \cup {[isQBFT |-> TRUE, qbftBlock |-> b] : b \in 0..(top - 1)}

\* The headers a caller may offer at a block number under a mode, in the
\* encoding under which apply will read them.
HeadersAt(number, mode, addrs) ==
    IF mode.isQBFT /\ number > mode.qbftBlock
    THEN QbftHeaders(number, addrs) ELSE LegacyHeaders(number, addrs)

\* The headers offered in runs that do not extend the snapshot: those that
\* vote on address 1 or carry no vote.
StrayHeadersAt(number, mode, addrs) ==
    {hd \in HeadersAt(number, mode, addrs) :
        /\ hd.SealOK => hd.Coinbase = 1
        /\ hd.HasVote => hd.Recipient = 1}

\* The contiguous runs of at most n headers starting at block number first,
\* none above top.
RECURSIVE Runs(_, _, _, _, _)
Runs(first, n, top, mode, addrs) ==
    IF n = 0 \/ first > top THEN {<<>>}
    ELSE {<<>>} \cup
         UNION {{<<hd>> \o tl : tl \in Runs(first + 1, n - 1, top, mode, addrs)} :
                hd \in HeadersAt(first, mode, addrs)}

\* The header at position k of a run, moved by one block (by = 1 up,
\* by = -1 down) when k >= from.
Shifted(run, from, by) ==
    [k \in 1..Len(run) |->
        IF k >= from
        THEN [Number |-> run[k].Number + by,
              Hash |-> HashOf(run[k].Number + by, run[k].Coinbase),
              SealOK |-> run[k].SealOK, Seal |-> run[k].Seal,
              Coinbase |-> run[k].Coinbase, Nonce |-> run[k].Nonce,
              ExtraOK |-> run[k].ExtraOK, HasVote |-> run[k].HasVote,
              Recipient |-> run[k].Recipient, VoteType |-> run[k].VoteType]
        ELSE run[k]]

\* The runs that cannot be applied to a snapshot at block first - 1: a run
\* of stray headers with one block number skipped or repeated, before its
\* first header or between two neighbours.
RECURSIVE StrayRuns(_, _, _, _, _)
StrayRuns(first, n, top, mode, addrs) ==
    IF n = 0 \/ first > top THEN {<<>>}
    ELSE {<<>>} \cup
         UNION {{<<hd>> \o tl : tl \in StrayRuns(first + 1, n - 1, top, mode, addrs)} :
                hd \in StrayHeadersAt(first, mode, addrs)}

BrokenRuns(first, n, top, mode, addrs) ==
    UNION {{Shifted(run, from, by) : from \in 1..Len(run), by \in {0 - 1, 1}} :
           run \in StrayRuns(first, n, top, mode, addrs)}

\* The headers at a block number that carry a well-formed vote, or none.
VotingHeadersAt(number, mode, addrs) ==
    {hd \in HeadersAt(number, mode, addrs) :
        IF mode.isQBFT /\ number > mode.qbftBlock
        THEN hd.ExtraOK /\ hd.VoteType # "QbftOther"
        ELSE hd.SealOK /\ hd.Nonce # "nonceOther"}

\* The contiguous runs of at most n such headers starting at block first.
RECURSIVE VotingRuns(_, _, _, _, _)
VotingRuns(first, n, top, mode, addrs) ==
    IF n = 0 \/ first > top THEN {<<>>}
    ELSE {<<>>} \cup
         UNION {{<<hd>> \o tl : tl \in VotingRuns(first + 1, n - 1, top, mode, addrs)} :
                hd \in VotingHeadersAt(first, mode, addrs)}

(* ------------------------------ the system ----------------------------- *)

\* The heap without what none of the snapshots refers to.
Collect(h, snaps) ==
    [vals |-> [r \in DOMAIN h.vals \cap {s.ValSet : s \in snaps} |-> h.vals[r]],
     tally |-> [r \in DOMAIN h.tally \cap {s.Tally : s \in snaps} |-> h.tally[r]],
     arr |-> [r \in DOMAIN h.arr \cap {s.Votes.arr : s \in snaps} |-> h.arr[r]]]

\* The snapshots the callers hold.
Held == {held[k] : k \in DOMAIN held}

\* What each held snapshot looked like when its holder obtained it is kept
\* in born, position by position.

\* The view standing in for "no snapshot".
NoView ==
    [Epoch |-> 0, Number |-> 0, Hash |-> 0, Votes |-> <<>>, Tally |-> EmptyMap,
     Validators |-> {}, Policy |-> "none"]

\* No call of apply has returned a result that its caller has yet to take.
Idle ==
    [pending |-> FALSE, recv |-> 0, headers |-> <<>>,
     mode |-> [isQBFT |-> FALSE, qbftBlock |-> 0], err |-> "nil", returned |-> FALSE,
     snap |-> [Epoch |-> 0, Number |-> 0, Hash |-> 0, Votes |-> NilSlice,
               Tally |-> 0, ValSet |-> 0],
     before |-> NoView, after |-> NoView, result |-> NoView, folds |-> <<>>]

(* ------------------------------ persistence ---------------------------- *)

\* The addresses of a set in ascending order.
RECURSIVE Ascending(_)
Ascending(S) ==
    IF S = {} THEN <<>>
    ELSE Bind(CHOOSE a \in S : \A b \in S : a <= b,
              LAMBDA lo : <<lo>> \o Ascending(S \ {lo}))

\* Snapshot.validators: the addresses of s.ValSet.List(), sorted ascending.
validators(h, s) == Ascending(h.vals[s.ValSet].members)

\* Snapshot.toJSONStruct, as json.Marshal writes it: the scalar fields; the
\* votes (null for a nil slice, otherwise the array of vote objects); the
\* tally as the members of a JSON object keyed by address; the validators
\* as the sorted array; the identifier of the proposer policy.
toJSONStruct(h, s) ==
    [epoch |-> s.Epoch, number |-> s.Number, hash |-> s.Hash,
     votes |-> [null |-> s.Votes.arr = 0, elems |-> Elems(h, s.Votes)],
     tally |-> {<<a, h.tally[s.Tally][a]>> : a \in DOMAIN h.tally[s.Tally]},
     validators |-> validators(h, s),
     policy |-> h.vals[s.ValSet].policy]

\* Snapshot.MarshalJSON
MarshalJSON(h, s) == toJSONStruct(h, s)

\* validator.NewSet(addrs, policy): the set of the listed addresses.
NewSet(addrs, policy) ==
    [members |-> {addrs[i] : i \in 1..Len(addrs)}, policy |-> policy]

\* The new Snapshot that json.Unmarshal decodes a blob into: the votes in a
\* new backing array (a nil slice for null), the tally in a new map, the
\* validator set built anew from the list and the policy identifier.
Decoded(h, j, epoch) ==
    LET vr == NewRef(h.vals)
        tr == NewRef(h.tally)
        ar == NewRef(h.arr)
        t == [a \in {p[1] : p \in j.tally} |-> (CHOOSE p \in j.tally : p[1] = a)[2]]
    IN  [snap |-> [Epoch |-> epoch, Number |-> j.number, Hash |-> j.hash,
                   Votes |-> IF j.votes.null THEN NilSlice
                             ELSE [arr |-> ar, len |-> Len(j.votes.elems)],
                   Tally |-> tr, ValSet |-> vr],
         heap |-> [vals |-> MapPut(h.vals, vr, NewSet(j.validators, j.policy)),
                   tally |-> MapPut(h.tally, tr, t),
                   arr |-> IF j.votes.null THEN h.arr
                           ELSE MapPut(h.arr, ar, j.votes.elems)]]

\* An UnmarshalJSON that leaves the epoch at its zero value.
UnmarshalJSONNoEpoch(h, j) == Decoded(h, j, 0)

\* Snapshot.UnmarshalJSON
UnmarshalJSON(h, j) == Decoded(h, j, j.epoch)

\* The database: the blob stored under each key (prefix and hash).
EmptyDb == [k \in {} |-> 0]

\* db.Get(key)
Get(db, hash) ==
    IF hash \in DOMAIN db THEN [blob |-> db[hash], err |-> "nil"]
    ELSE [blob |-> 0, err |-> "errNotFound"]

\* db.Put(key, blob)
Put(db, hash, blob) == [k \in (DOMAIN db) \cup {hash} |-> IF k = hash THEN blob ELSE db[k]]

\* Snapshot.store
store(h, s, db) == Put(db, s.Hash, MarshalJSON(h, s))

\* The snapshot read back as json.Unmarshal leaves it, with the given epoch.
Loaded(m, epoch) ==
    [err |-> "nil", returned |-> TRUE, heap |-> m.heap,
     snap |-> [Epoch |-> epoch, Number |-> m.snap.Number, Hash |-> m.snap.Hash,
               Votes |-> m.snap.Votes, Tally |-> m.snap.Tally, ValSet |-> m.snap.ValSet]]

\* A loadSnapshot that keeps the epoch found in the blob.
loadSnapshotKeepingEpoch(h, epoch, db, hash) ==
    Bind(Get(db, hash), LAMBDA g :
        IF g.err # "nil"
        THEN [err |-> g.err, returned |-> FALSE, heap |-> h, snap |-> Idle.snap]
        ELSE Bind(UnmarshalJSON(h, g.blob), LAMBDA m : Loaded(m, m.snap.Epoch)))

\* loadSnapshot
loadSnapshot(h, epoch, db, hash) ==
    Bind(Get(db, hash), LAMBDA g :
        IF g.err # "nil"
        THEN [err |-> g.err, returned |-> FALSE, heap |-> h, snap |-> Idle.snap]
        ELSE Bind(UnmarshalJSON(h, g.blob), LAMBDA m : Loaded(m, epoch)))

\* No load has returned a result that its caller has yet to read.
NoLoad ==
    [pending |-> FALSE, epoch |-> 0, hash |-> 0, err |-> "nil", returned |-> FALSE,
     result |-> NoView]

\* The database before anything was stored.
NoDisk == [db |-> EmptyDb, wrote |-> EmptyDb, over |-> {}, got |-> NoLoad]

(* ------------------------------ callers -------------------------------- *)

\* The genesis snapshot of a chain: newSnapshot over a validator set.
Genesis(epoch, members) ==
    LET h0 == [vals |-> <<[members |-> members, policy |-> "RoundRobin"]>>,
               tally |-> <<>>, arr |-> <<>>]
    IN  \E g \in {newSnapshot(h0, epoch, 0, 0, 1)} :
            /\ held = <<g.snap>>
            /\ born = <<View(g.heap, g.snap)>>
            /\ heap = g.heap
            /\ last = Idle
            /\ disk = NoDisk

\* A caller holding held[i] calls held[i].apply(headers, isQBFTConsensus,
\* qbftBlockNumber). Recorded of the call: its arguments, the error, the
\* snapshot returned, the receiver as read before and after the call, the
\* result as read, and what each folded header did.
Apply(i, headers, mode) ==
    \E r \in {apply(heap, held[i], headers, mode.isQBFT, mode.qbftBlock)} :
        /\ ~last.pending
        /\ held' = held
        /\ born' = born
        /\ disk' = disk
        /\ heap' = Collect(r.heap, IF r.returned THEN Held \cup {r.snap} ELSE Held)
        /\ last' = [pending |-> TRUE, recv |-> i, headers |-> headers, mode |-> mode,
                    err |-> r.err, returned |-> r.returned,
                    snap |-> IF r.returned THEN r.snap ELSE Idle.snap,
                    before |-> View(heap, held[i]), after |-> View(r.heap, held[i]),
                    result |-> IF r.returned THEN View(r.heap, r.snap) ELSE NoView,
                    folds |-> r.folds]

\* snap = result: the caller working on the newest snapshot replaces it by
\* the one returned; the older snapshots are held by readers.
Replace ==
    /\ last.pending /\ last.returned
    /\ last.recv = Len(held)
    /\ held' = [k \in 1..Len(held) |-> IF k = last.recv THEN last.snap ELSE held[k]]
    /\ born' = [k \in 1..Len(held) |-> IF k = last.recv THEN last.result ELSE born[k]]
    /\ heap' = Collect(heap, {held'[k] : k \in DOMAIN held})
    /\ last' = Idle
    /\ disk' = disk

\* The caller keeps both the receiver and the snapshot returned.
KeepBoth ==
    /\ last.pending /\ last.returned
    /\ Len(held) < MaxHeld
    /\ held' = Append(held, last.snap)
    /\ born' = Append(born, last.result)
    /\ heap' = heap
    /\ last' = Idle
    /\ disk' = disk

\* The caller drops what apply returned (always so for an error).
Discard ==
    /\ last.pending
    /\ held' = held
    /\ born' = born
    /\ heap' = Collect(heap, Held)
    /\ last' = Idle
    /\ disk' = disk

Init == \E epoch \in Epochs, members \in GenesisValidators : Genesis(epoch, members)

Offered(number, mode) ==
    Runs(number + 1, MaxRun, MaxNumber, mode, Address)
    \cup BrokenRuns(number + 1, MaxRun, MaxNumber, mode, Address)

Next ==
    \/ /\ ~last.pending
       /\ \E mode \in Modes(MaxNumber) :
              \E headers \in Offered(held[1].Number, mode) : Apply(1, headers, mode)
    \/ Replace
    \/ Discard

Spec == Init /\ [][Next]_vars

(* Several snapshots held at once: a caller may keep the receiver next to  *)
(* the snapshot returned, and may apply further runs to any snapshot held. *)

NextHeld ==
    \/ /\ ~last.pending
       /\ \E i \in DOMAIN held, mode \in Modes(1) :
              \E headers \in Runs(held[i].Number + 1, 1, MaxNumber, mode, Address) :
                  Apply(i, headers, mode)
    \/ KeepBoth
    \/ Discard

SpecHeld == Init /\ [][NextHeld]_vars

(* Single headers folded one at a time over four identities, deeper.       *)

AddressDeep == {0, 1, 2, 3}

GenesisDeep == {{1, 2}, {0, 1, 2, 3}}

InitDeep == \E epoch \in Epochs, members \in GenesisDeep : Genesis(epoch, members)

NextDeep ==
    \/ /\ ~last.pending
       /\ held[1].Number < MaxDeep
       /\ \E mode \in Modes(1) :
              \E header \in HeadersAt(held[1].Number + 1, mode, AddressDeep) :
                  Apply(1, <<header>>, mode)
    \/ Replace
    \/ Discard

SpecDeep == InitDeep /\ [][NextDeep]_vars

(* Runs of valid votes over two identities, long enough for a checkpoint   *)
(* block to have headers before and after it in one run.                   *)

InitEpoch == Genesis(2, Address)

NextEpoch ==
    \/ /\ ~last.pending
       /\ \E mode \in Modes(1) :
              \E headers \in VotingRuns(held[1].Number + 1, MaxRun + 1, MaxNumber + 1,
                                        mode, Address) :
                  Apply(1, headers, mode)
    \/ Replace
    \/ Discard

SpecEpoch == InitEpoch /\ [][NextEpoch]_vars

(* Snapshots stored in and loaded from a database: a caller applies runs   *)
(* of votes to the genesis snapshot and stores what comes back.            *)

\* The snapshots a caller can store: those held and the one just returned.
Storable == Held \cup (IF last.pending /\ last.returned THEN {last.snap} ELSE {})

\* A caller stores a snapshot. Kept of the call, key by key: the snapshot as
\* read when it was stored, and whether another one was stored there before.
Store(s) ==
    /\ s.Hash \in DOMAIN disk.db \/ Cardinality(DOMAIN disk.db) < MaxStored
    /\ disk' = [db |-> store(heap, s, disk.db),
                wrote |-> Put(disk.wrote, s.Hash, View(heap, s)),
                over |-> IF s.Hash \in DOMAIN disk.wrote
                            /\ disk.wrote[s.Hash] # View(heap, s)
                         THEN disk.over \cup {s.Hash} ELSE disk.over,
                got |-> NoLoad]
    /\ UNCHANGED <<held, born, heap, last>>

\* A caller loads the snapshot of a hash under its current epoch, reads what
\* came back and lets it go.
Load(epoch, hash) ==
    \E r \in {loadSnapshot(heap, epoch, disk.db, hash)} :
        /\ ~last.pending
        /\ disk' = [db |-> disk.db, wrote |-> disk.wrote, over |-> disk.over,
                    got |-> [pending |-> TRUE, epoch |-> epoch, hash |-> hash,
                             err |-> r.err, returned |-> r.returned,
                             result |-> IF r.returned THEN View(r.heap, r.snap)
                                        ELSE NoView]]
        /\ UNCHANGED <<held, born, heap, last>>

InitStore == \E members \in GenesisValidators : Genesis(1000, members)

\* The runs of at most n legacy headers from block first on in which the
\* given signers vote to deauthorize.
RECURSIVE DropRuns(_, _, _, _, _)
DropRuns(first, n, top, signers, addrs) ==
    IF n = 0 \/ first > top THEN {<<>>}
    ELSE {<<>>} \cup
         UNION {{<<hd>> \o tl : tl \in DropRuns(first + 1, n - 1, top, signers, addrs)} :
                hd \in {x \in LegacyHeaders(first, addrs) :
                            x.SealOK /\ x.Seal \in signers /\ x.Nonce = "nonceDropVote"}}

NextStore ==
    \/ /\ ~last.pending
       /\ \E headers \in DropRuns(1, MaxRun, MaxNumber, {1}, Address) :
              Apply(1, headers, [isQBFT |-> FALSE, qbftBlock |-> 0])
    \/ Discard
    \/ \E s \in Storable : Store(s)
    \/ \E epoch \in Epochs, hash \in {held[1].Hash} \cup DOMAIN disk.db :
           Load(epoch, hash)

SpecStore == InitStore /\ [][NextStore]_vars

(* Four validators voting, one header at a time, on the zero address and   *)
(* on one of themselves: long enough for the set to shrink while a tally   *)
(* is pending.                                                             *)

InitStale == Genesis(1000, AddressDeep)

\* The legacy headers at a block number that carry a vote on the zero
\* address or on the highest address.
StaleHeadersAt(number) ==
    {x \in LegacyHeaders(number, AddressDeep) :
        /\ x.SealOK /\ x.Nonce # "nonceOther"
        /\ x.Coinbase \in {ZeroAddress, 3}}

NextStale ==
    \/ /\ ~last.pending
       /\ held[1].Number < MaxStale
       /\ \E header \in StaleHeadersAt(held[1].Number + 1) :
              Apply(1, <<header>>, [isQBFT |-> FALSE, qbftBlock |-> 0])
    \/ Replace
    \/ Discard

SpecStale == InitStale /\ [][NextStale]_vars

TypeOK ==
    /\ Len(held) \in 1..MaxHeld
    /\ Len(born) = Len(held)

(* ------------------------------ properties ----------------------------- *)

\* The snapshots that exist: those held, and the one just returned.
Snapshots ==
    {View(heap, held[k]) : k \in DOMAIN held}
    \cup (IF last.pending /\ last.returned THEN {last.result} ELSE {})

\* Number of votes of a log that target an identity.
VotesOn(votes, target) == Cardinality({i \in 1..Len(votes) : votes[i].Address = target})

\* The tally count of an identity, 0 when it has no entry.
CountOf(tally, target) == IF target \in DOMAIN tally THEN tally[target].Votes ELSE 0

\* A sequence without its element at position i.
Without(seq, i) == [k \in 1..(Len(seq) - 1) |-> IF k < i THEN seq[k] ELSE seq[k + 1]]

\* C1: when a header voting on target T is folded, T is added to or removed
\* from the validator set if and only if, once the header's vote has been
\* processed, T's tally count is strictly greater than half the size of the
\* validator set (integer division, size before the change); T is added when
\* the tally's intent is authorize and removed otherwise, and no other
\* identity changes membership. A tally of exactly half never resolves.
MajorityExact ==
    \A k \in DOMAIN last.folds :
        LET f == last.folds[k]
            T == f.target
            size == Cardinality(f.mid.Validators)
            count == CountOf(f.mid.Tally, T)
            changed == f.post.Validators # f.mid.Validators
        IN  f.err = "nil" =>
                /\ f.mid.Validators = f.pre.Validators
                /\ changed <=> count > size \div 2
                /\ changed =>
                       IF f.mid.Tally[T].Authorize
                       THEN /\ T \notin f.mid.Validators
                            /\ f.post.Validators = f.mid.Validators \cup {T}
                       ELSE /\ T \in f.mid.Validators
                            /\ f.post.Validators = f.mid.Validators \ {T}
                /\ (2 * count = size) => ~changed

\* C1 witness: the set is {1, 2}, 1 votes to deauthorize 2; the tally of 2 is
\* one deauthorize vote, exactly half, and 2 remains.
MajorityExactWitness ==
    \E k \in DOMAIN last.folds :
        LET f == last.folds[k]
        IN  /\ f.err = "nil" /\ f.signer = 1 /\ f.target = 2 /\ ~f.authorize
            /\ f.pre.Validators = {1, 2}
            /\ 2 \in DOMAIN f.mid.Tally
            /\ f.mid.Tally[2] = [Authorize |-> FALSE, Votes |-> 1]
            /\ f.post.Validators = {1, 2}

\* C2: in every snapshot reachable from a genesis snapshot by successful
\* apply calls, an identity has a tally entry if and only if the vote log
\* holds a vote targeting it, the entry's count is the number of those votes,
\* and the count is at least 1.
TallyMatchesLog ==
    \A v \in Snapshots :
        /\ \A i \in 1..Len(v.Votes) : v.Votes[i].Address \in DOMAIN v.Tally
        /\ \A T \in DOMAIN v.Tally :
               /\ v.Tally[T].Votes = VotesOn(v.Votes, T)
               /\ v.Tally[T].Votes >= 1

\* C2 witness: a successful fold in which an identity with two votes in the
\* tally has one of them reverted, leaving a count of 1, and a returned
\* snapshot whose tally holds an entry.
TallyMatchesLogWitness ==
    /\ last.pending /\ last.returned
    /\ DOMAIN last.result.Tally # {}
    /\ \E k \in DOMAIN last.folds :
           LET f == last.folds[k]
           IN  /\ f.err = "nil"
               /\ f.target \in DOMAIN f.clr.Tally
               /\ f.target \in DOMAIN f.disc.Tally
               /\ f.clr.Tally[f.target].Votes = 2
               /\ f.disc.Tally[f.target].Votes = 1

\* C3: in every snapshot, the vote log holds at most one entry of a signer on
\* a target; and when a signer votes again on a target, the earlier entry is
\* taken out of the log and out of the tally (count decremented, or the
\* entry deleted at 1) before the new vote is cast.
OneVotePerSignerTarget ==
    /\ \A v \in Snapshots :
           \A i, j \in 1..Len(v.Votes) :
               (v.Votes[i].Validator = v.Votes[j].Validator
                    /\ v.Votes[i].Address = v.Votes[j].Address) => i = j
    /\ \A k \in DOMAIN last.folds :
           LET f == last.folds[k]
               earlier == {i \in 1..Len(f.clr.Votes) :
                              /\ f.clr.Votes[i].Validator = f.signer
                              /\ f.clr.Votes[i].Address = f.target}
           IN  f.err = "nil" =>
                   /\ Cardinality(earlier) <= 1
                   /\ earlier = {} => f.disc = f.clr
                   /\ \A i \in earlier :
                          /\ f.disc.Votes = Without(f.clr.Votes, i)
                          /\ f.target \in DOMAIN f.clr.Tally
                          /\ CountOf(f.disc.Tally, f.target)
                                 = f.clr.Tally[f.target].Votes - 1
                          /\ f.target \in DOMAIN f.disc.Tally
                                 <=> f.clr.Tally[f.target].Votes > 1
                          /\ \A a \in DOMAIN f.clr.Tally \ {f.target} :
                                 a \in DOMAIN f.disc.Tally /\ f.disc.Tally[a] = f.clr.Tally[a]
                   /\ f.castOK => f.mid.Votes =
                          Append(f.disc.Votes,
                                 [Validator |-> f.signer, Block |-> f.number,
                                  Address |-> f.target, Authorize |-> f.authorize])

\* C3 witness: a signer with a vote on a target in the log votes on that
\* target again, and the new vote is cast.
OneVotePerSignerTargetWitness ==
    \E k \in DOMAIN last.folds :
        LET f == last.folds[k]
        IN  /\ f.err = "nil" /\ f.castOK
            /\ \E i \in 1..Len(f.clr.Votes) :
                   /\ f.clr.Votes[i].Validator = f.signer
                   /\ f.clr.Votes[i].Address = f.target
            /\ Len(f.post.Votes) >= 1

\* C7: a vote that does not change the authorization status of its target
\* (authorize for a validator, deauthorize for a non-validator) creates no
\* tally entry, increments none and appends nothing to the vote log; the
\* vote is accepted exactly when authorize = (target is not a validator).
NoopVote ==
    \A k \in DOMAIN last.folds :
        LET f == last.folds[k]
            isValidator == f.target \in f.disc.Validators
        IN  f.err = "nil" =>
                /\ f.castOK <=> (f.authorize = ~isValidator)
                /\ (f.authorize = isValidator) =>
                       /\ f.mid.Tally = f.disc.Tally
                       /\ f.mid.Votes = f.disc.Votes

\* C7 witness: an authorize vote for an identity that is a validator and has
\* a tally entry already; the entry and the log stay as they are.
NoopVoteWitness ==
    \E k \in DOMAIN last.folds :
        LET f == last.folds[k]
        IN  /\ f.err = "nil" /\ f.authorize
            /\ f.target \in f.disc.Validators
            /\ f.target \in DOMAIN f.disc.Tally
            /\ ~f.castOK
            /\ f.mid.Tally = f.disc.Tally

\* The run does not extend a snapshot at block number: its first header is
\* not the next block, or two neighbours are not consecutive.
Broken(headers, number) ==
    /\ Len(headers) >= 1
    /\ \/ headers[1].Number # number + 1
       \/ \E i \in 1..(Len(headers) - 1) : headers[i + 1].Number # headers[i].Number + 1

\* C4: apply on a non-empty run that has a gap or does not start at the
\* snapshot's number + 1 fails with errInvalidVotingChain, returns no
\* snapshot and leaves the receiver unchanged; no header is folded, so the
\* error wins over any other error condition in the run.
Contiguity ==
    (last.pending /\ Broken(last.headers, last.before.Number)) =>
        /\ last.err = "errInvalidVotingChain"
        /\ ~last.returned
        /\ last.after = last.before
        /\ last.folds = <<>>

\* C4 witness: a legacy run with a gap whose first header is sealed by an
\* identity that is not a validator, and a header with an invalid nonce.
ContiguityWitness ==
    /\ last.pending /\ ~last.mode.isQBFT
    /\ Len(last.headers) = 2
    /\ last.headers[1].Number = last.before.Number + 1
    /\ last.headers[2].Number # last.headers[1].Number + 1
    /\ last.headers[1].SealOK
    /\ last.headers[1].Seal \notin last.before.Validators
    /\ last.headers[2].Nonce = "nonceOther"
    /\ last.err = "errInvalidVotingChain"

\* C5: if folding fails at header k of a run (earlier headers of the run
\* having been folded without error), apply returns the error of header k
\* and no snapshot, and the receiver is exactly what it was before the call.
AllOrNothing ==
    last.pending =>
        /\ (last.err # "nil") => (~last.returned /\ last.after = last.before)
        /\ \A k \in DOMAIN last.folds :
               last.folds[k].err # "nil" =>
                   /\ k = Len(last.folds)
                   /\ last.err = last.folds[k].err
                   /\ ~last.returned
                   /\ last.after = last.before
        /\ last.returned => last.err = "nil"

\* C5 witness: the second header of a run fails after the first one changed
\* the vote log, the tally or the validator set of the working copy.
AllOrNothingWitness ==
    /\ last.pending /\ last.err # "nil"
    /\ Len(last.folds) = 2
    /\ last.folds[1].post.Votes # last.folds[1].pre.Votes
    /\ last.folds[1].post.Tally # last.folds[1].pre.Tally
    /\ last.folds[2].pre.Votes # last.before.Votes

\* C6: apply never changes its receiver, and work done on a snapshot never
\* changes another: every held snapshot reads as it did when it was
\* obtained, whatever has since been applied to it or to its successors.
ReceiverUntouched ==
    /\ \A k \in DOMAIN held : View(heap, held[k]) = born[k]
    /\ last.pending => last.after = last.before

\* C6 witness: a snapshot and its successor are both held, and an apply on
\* the successor has returned a snapshot with another validator set, vote
\* log and tally.
ReceiverUntouchedWitness ==
    /\ Len(held) = 2
    /\ held[2].Number > held[1].Number
    /\ last.pending /\ last.returned /\ last.recv = 2
    /\ last.result.Validators # last.before.Validators
    /\ born[2].Votes # born[1].Votes
    /\ born[2].Tally # born[1].Tally

\* C8: folding a header whose number is a multiple of the epoch clears the
\* vote log and the tally before the header's own vote is processed, so
\* just after it the log holds at most that header's own vote; and no
\* snapshot holds a vote cast in a block before a checkpoint at or below the
\* snapshot's number.
EpochAmnesty ==
    /\ \A k \in DOMAIN last.folds :
           LET f == last.folds[k]
               own == [Validator |-> f.signer, Block |-> f.number,
                       Address |-> f.target, Authorize |-> f.authorize]
           IN  (f.err = "nil" /\ f.number % last.before.Epoch = 0) =>
                   /\ f.clr.Votes = <<>>
                   /\ DOMAIN f.clr.Tally = {}
                   /\ f.castOK <=> (f.authorize = (f.target \notin f.pre.Validators))
                   /\ f.mid.Votes = IF f.castOK THEN <<own>> ELSE <<>>
                   /\ \A i \in 1..Len(f.post.Votes) : f.post.Votes[i] = own
    /\ \A v \in Snapshots :
           \A i \in 1..Len(v.Votes) :
               \A c \in 1..v.Number :
                   c % v.Epoch = 0 => v.Votes[i].Block >= c

\* C8 witness: a run of three headers whose second header is a checkpoint;
\* a vote of the first header is pending when the checkpoint is folded, the
\* checkpoint header's own vote is cast and is the only one left after it.
EpochAmnestyWitness ==
    /\ last.pending /\ last.returned
    /\ Len(last.folds) = 3
    /\ last.folds[2].number % last.before.Epoch = 0
    /\ Len(last.folds[2].pre.Votes) = 1
    /\ last.folds[2].pre.Votes[1].Block = last.folds[2].number - 1
    /\ last.folds[2].castOK
    /\ Len(last.folds[2].post.Votes) = 1
    /\ last.folds[2].post.Votes[1].Block = last.folds[2].number

\* C9: a successful apply of n >= 1 headers returns a snapshot whose number
\* is the receiver's number + n, which is the last header's number, and
\* whose hash is the hash of the last header; the number of the snapshot
\* returned is above the receiver's, whose own number stays.
HeightAndHash ==
    (last.pending /\ last.returned /\ Len(last.headers) >= 1) =>
        /\ last.result.Number = last.before.Number + Len(last.headers)
        /\ last.result.Number = last.headers[Len(last.headers)].Number
        /\ last.result.Hash = last.headers[Len(last.headers)].Hash
        /\ last.result.Number > last.before.Number
        /\ last.after.Number = last.before.Number

\* C9 witness: a run of two headers applied with success; the snapshot
\* returned is two blocks up and carries the hash of the second header.
HeightAndHashWitness ==
    /\ last.pending /\ last.returned
    /\ Len(last.headers) = 2
    /\ last.result.Number = 2
    /\ last.result.Hash = last.headers[2].Hash
    /\ last.result.Hash # last.headers[1].Hash

\* C10: folding a header fails with errUnauthorized when (and only when)
\* the recovered signer is not in the validator set as it stands at that
\* header, that is after every earlier header of the run has been folded
\* into the receiver's set.
SignerAuthorization ==
    \A k \in DOMAIN last.folds :
        LET f == last.folds[k]
            hd == last.headers[k]
            standing == IF k = 1 THEN last.before.Validators
                        ELSE last.folds[k - 1].post.Validators
            recovered == f.qbft \/ hd.SealOK
            signer == IF f.qbft THEN hd.Coinbase ELSE hd.Seal
        IN  recovered => ((signer \notin standing) <=> f.err = "errUnauthorized")

\* C10 witness: the first header of a run removes an identity from the
\* validator set, and the second header, signed by that identity, is
\* rejected.
SignerAuthorizationWitness ==
    /\ last.pending
    /\ Len(last.folds) = 2
    /\ \E X \in last.before.Validators :
           /\ X \notin last.folds[1].post.Validators
           /\ last.folds[2].signer = X
    /\ last.folds[2].err = "errUnauthorized"
    /\ last.err = "errUnauthorized"

\* C11: in every snapshot, all log votes on one target carry the same
\* intent, which is the intent of the target's tally entry; the intent of a
\* tally entry is authorize exactly when its target is not a validator and
\* deauthorize exactly when it is.
OneIntentPerTarget ==
    \A v \in Snapshots :
        /\ \A i, j \in 1..Len(v.Votes) :
               v.Votes[i].Address = v.Votes[j].Address =>
                   v.Votes[i].Authorize = v.Votes[j].Authorize
        /\ \A i \in 1..Len(v.Votes) :
               /\ v.Votes[i].Address \in DOMAIN v.Tally
               /\ v.Tally[v.Votes[i].Address].Authorize = v.Votes[i].Authorize
        /\ \A T \in DOMAIN v.Tally :
               v.Tally[T].Authorize <=> (T \notin v.Validators)

\* C11 witness: a returned snapshot with a pending authorize decision on a
\* non-validator and a pending deauthorize decision on a validator, each
\* backed by a vote in the log.
OneIntentPerTargetWitness ==
    /\ last.pending /\ last.returned
    /\ \E T, U \in DOMAIN last.result.Tally :
           /\ last.result.Tally[T].Authorize /\ T \notin last.result.Validators
           /\ ~last.result.Tally[U].Authorize /\ U \in last.result.Validators
    /\ Len(last.result.Votes) = 2

\* The header carries a (signer, target, intent) triple with a recognised
\* intent, in the encoding it is read in.
CarriesTriple(header, qbft) ==
    IF qbft
    THEN header.ExtraOK /\ header.HasVote
         /\ header.VoteType \in {"QbftAuthVote", "QbftDropVote"}
    ELSE header.SealOK /\ header.Nonce \in {"nonceAuthVote", "nonceDropVote"}

\* The header of the other encoding that carries the same triple.
TwinOf(header, qbft) ==
    IF qbft
    THEN [Number |-> header.Number, Hash |-> header.Hash, SealOK |-> TRUE,
          Seal |-> header.Coinbase, Coinbase |-> header.Recipient,
          Nonce |-> IF header.VoteType = "QbftAuthVote"
                    THEN "nonceAuthVote" ELSE "nonceDropVote",
          ExtraOK |-> FALSE, HasVote |-> FALSE, Recipient |-> ZeroAddress,
          VoteType |-> "QbftDropVote"]
    ELSE [Number |-> header.Number, Hash |-> header.Hash, SealOK |-> FALSE,
          Seal |-> ZeroAddress, Coinbase |-> header.Seal, Nonce |-> "nonceDropVote",
          ExtraOK |-> TRUE, HasVote |-> TRUE, Recipient |-> header.Coinbase,
          VoteType |-> IF header.Nonce = "nonceAuthVote"
                       THEN "QbftAuthVote" ELSE "QbftDropVote"]

\* C12: for every snapshot and every (signer, target, intent) triple,
\* folding a structured-vote header that carries the triple and folding a
\* legacy header that carries it give the same outcome: the same error, or
\* the same vote log, tally and validator set. Whenever a single header
\* carrying a triple has been folded into a snapshot, the fold of its twin
\* of the other encoding into the same snapshot is compared with it.
EncodingsAgree ==
    (/\ last.pending /\ Len(last.headers) = 1 /\ Len(last.folds) = 1
     /\ CarriesTriple(last.headers[1], last.folds[1].qbft)) =>
        \A c \in {copy(heap, held[last.recv])} :
            \A t \in {IF last.folds[1].qbft
                       THEN legacyApply(c, TwinOf(last.headers[1], TRUE))
                       ELSE qbftApply(c, TwinOf(last.headers[1], FALSE))} :
                /\ t.qbft # last.folds[1].qbft
                /\ t.err = last.folds[1].err
                /\ t.err = "nil" =>
                       /\ t.post = last.folds[1].post
                       /\ t.castOK = last.folds[1].castOK
                       /\ t.signer = last.folds[1].signer
                       /\ t.target = last.folds[1].target
                       /\ t.authorize = last.folds[1].authorize

\* C12 witness: a structured-vote header whose deauthorize vote resolves,
\* removes a validator and purges votes from the log has been folded.
EncodingsAgreeWitness ==
    /\ last.pending /\ Len(last.folds) = 1
    /\ last.folds[1].qbft /\ last.folds[1].err = "nil"
    /\ CarriesTriple(last.headers[1], TRUE)
    /\ ~last.folds[1].authorize
    /\ last.folds[1].post.Validators # last.folds[1].pre.Validators
    /\ Len(last.folds[1].post.Votes) < Len(last.folds[1].mid.Votes) - 1

\* C13: reading back what was written gives the same snapshot: for every
\* snapshot S that was serialized, UnmarshalJSON of MarshalJSON of S has the
\* epoch, number, hash, vote log (in order), tally, validator membership and
\* proposer policy identifier of S.
RoundTrip ==
    \A hash \in DOMAIN disk.db :
        \A m \in {UnmarshalJSON(heap, disk.db[hash])} :
            View(m.heap, m.snap) = disk.wrote[hash]

\* C13 witness: a snapshot with two votes in its log, two tally entries and
\* two validators was serialized.
RoundTripWitness ==
    \E hash \in DOMAIN disk.db :
        /\ Len(disk.wrote[hash].Votes) = 2
        /\ Cardinality(DOMAIN disk.wrote[hash].Tally) = 2
        /\ Cardinality(disk.wrote[hash].Validators) = 2
        /\ Len(disk.db[hash].validators) = 2

\* C14: loadSnapshot(e, db, hash) after S.store(db) returns a snapshot with
\* the number, hash, votes, tally and validators of the S stored last under
\* that hash and with the epoch e of the caller; loading a hash under which
\* nothing was stored returns the not-found error and no snapshot.
StoreThenLoad ==
    disk.got.pending =>
        IF disk.got.hash \in DOMAIN disk.wrote
        THEN /\ disk.got.err = "nil" /\ disk.got.returned
             /\ disk.got.result.Epoch = disk.got.epoch
             /\ disk.got.result.Number = disk.wrote[disk.got.hash].Number
             /\ disk.got.result.Hash = disk.wrote[disk.got.hash].Hash
             /\ disk.got.result.Hash = disk.got.hash
             /\ disk.got.result.Votes = disk.wrote[disk.got.hash].Votes
             /\ disk.got.result.Tally = disk.wrote[disk.got.hash].Tally
             /\ disk.got.result.Validators = disk.wrote[disk.got.hash].Validators
        ELSE /\ disk.got.err = "errNotFound" /\ ~disk.got.returned
             /\ disk.got.result = NoView

\* C14 witness: a snapshot with votes, stored under a hash where a different
\* snapshot had been stored before, was loaded under another epoch than its own.
StoreThenLoadWitness ==
    /\ disk.got.pending /\ disk.got.returned
    /\ disk.got.hash \in disk.over
    /\ disk.got.epoch # disk.wrote[disk.got.hash].Epoch
    /\ Len(disk.got.result.Votes) > 0

\* A load of a hash under which nothing was stored has returned.
LoadMissWitness ==
    /\ disk.got.pending /\ ~disk.got.returned
    /\ DOMAIN disk.db # {}

\* The fold found the tally of its target above half the validators.
Resolved(f) ==
    /\ f.err = "nil"
    /\ f.target \in DOMAIN f.mid.Tally
    /\ f.mid.Tally[f.target].Votes > Cardinality(f.mid.Validators) \div 2

\* The fold resolved a vote to deauthorize its target.
Removed(f) == Resolved(f) /\ ~f.mid.Tally[f.target].Authorize

\* The votes of a log that are neither on the target nor, where they are to
\* go, cast by it; in the order of the log.
RECURSIVE Survivors(_, _, _)
Survivors(votes, target, byToo) ==
    IF votes = <<>> THEN <<>>
    ELSE IF Head(votes).Address = target \/ (byToo /\ Head(votes).Validator = target)
         THEN Survivors(Tail(votes), target, byToo)
         ELSE <<Head(votes)>> \o Survivors(Tail(votes), target, byToo)

\* Number of votes of a log cast by an identity on a target.
VotesByOn(votes, signer, target) ==
    Cardinality({i \in 1..Len(votes) :
                    votes[i].Validator = signer /\ votes[i].Address = target})

\* C15: right after a fold resolves the vote on T, no log entry targets T
\* and T has no tally entry; where T was removed, no log entry cast by T
\* remains and every purged vote of T on another target X is taken out of
\* X's tally (one count less, the entry deleted at zero); the votes that
\* survive keep their order, and no other tally entry changes.
PurgeOnResolve ==
    \A k \in 1..Len(last.folds) :
        \A f \in {last.folds[k]} :
            Resolved(f) =>
                /\ \A i \in 1..Len(f.post.Votes) : f.post.Votes[i].Address # f.target
                /\ f.target \notin DOMAIN f.post.Tally
                /\ Removed(f) =>
                       \A i \in 1..Len(f.post.Votes) : f.post.Votes[i].Validator # f.target
                /\ f.post.Votes = Survivors(f.mid.Votes, f.target, Removed(f))
                /\ \A X \in (DOMAIN f.mid.Tally \cup DOMAIN f.post.Tally) \ {f.target} :
                       \A gone \in {IF Removed(f)
                                     THEN VotesByOn(f.mid.Votes, f.target, X) ELSE 0} :
                           /\ CountOf(f.post.Tally, X) = CountOf(f.mid.Tally, X) - gone
                           /\ X \in DOMAIN f.post.Tally <=> CountOf(f.mid.Tally, X) > gone
                           /\ X \in DOMAIN f.post.Tally =>
                                  f.post.Tally[X].Authorize = f.mid.Tally[X].Authorize

\* C15 witness: a fold removed a validator whose own vote on another target
\* was the only one there, out of a log of three votes.
PurgeOnResolveWitness ==
    \E k \in 1..Len(last.folds) :
        /\ Removed(last.folds[k])
        /\ \E X \in DOMAIN last.folds[k].mid.Tally \ {last.folds[k].target} :
               /\ VotesByOn(last.folds[k].mid.Votes, last.folds[k].target, X) = 1
               /\ X \notin DOMAIN last.folds[k].post.Tally
        /\ Len(last.folds[k].mid.Votes) = 3

\* A fold resolved a vote and left votes in the log.
PurgeSurvivorWitness ==
    \E k \in 1..Len(last.folds) :
        /\ Resolved(last.folds[k])
        /\ Len(last.folds[k].post.Votes) > 0
        /\ Len(last.folds[k].post.Votes) < Len(last.folds[k].mid.Votes)

\* The structured header is well formed and carries no vote.
NoVote(header) == header.ExtraOK /\ ~header.HasVote

\* The header of the same block and proposer with an explicit vote to drop
\* the zero address.
DropZeroOf(header) ==
    [Number |-> header.Number, Hash |-> header.Hash, SealOK |-> header.SealOK,
     Seal |-> header.Seal, Coinbase |-> header.Coinbase, Nonce |-> header.Nonce,
     ExtraOK |-> TRUE, HasVote |-> TRUE, Recipient |-> ZeroAddress,
     VoteType |-> "QbftDropVote"]

\* C16: a structured header without a vote is folded exactly like a header
\* of the same signer with an explicit vote to deauthorize the zero address:
\* while the zero address is no validator nothing is added to the log or the
\* tally, and while it is one the header counts as one deauthorize vote on it.
DefaultVote ==
    (/\ last.pending /\ Len(last.headers) = 1 /\ Len(last.folds) = 1
     /\ last.folds[1].qbft /\ NoVote(last.headers[1])) =>
        \A f \in {last.folds[1]} :
            /\ \A c \in {copy(heap, held[last.recv])} :
                   \A t \in {qbftApply(c, DropZeroOf(last.headers[1]))} :
                       /\ t.err = f.err
                       /\ t.post = f.post /\ t.mid = f.mid /\ t.disc = f.disc
                       /\ t.castOK = f.castOK /\ t.signer = f.signer
                       /\ t.target = f.target /\ t.authorize = f.authorize
            /\ f.err = "nil" =>
                   IF ZeroAddress \in f.disc.Validators
                   THEN /\ f.castOK
                        /\ f.mid.Votes = Append(f.disc.Votes,
                               [Validator |-> f.signer, Block |-> f.number,
                                Address |-> ZeroAddress, Authorize |-> FALSE])
                        /\ CountOf(f.mid.Tally, ZeroAddress)
                               = CountOf(f.disc.Tally, ZeroAddress) + 1
                        /\ ~f.mid.Tally[ZeroAddress].Authorize
                   ELSE /\ ~f.castOK
                        /\ f.mid.Votes = f.disc.Votes
                        /\ f.mid.Tally = f.disc.Tally
                        /\ f.post = f.mid

\* C16 witness: a structured header without a vote was folded while the
\* zero address was a validator that already had a vote against it.
DefaultVoteWitness ==
    /\ last.pending /\ Len(last.folds) = 1
    /\ last.folds[1].qbft /\ NoVote(last.headers[1])
    /\ last.folds[1].err = "nil"
    /\ ZeroAddress \in last.folds[1].disc.Validators
    /\ CountOf(last.folds[1].mid.Tally, ZeroAddress) = 2

\* A structured header without a vote was folded while the zero address was
\* no validator.
DefaultVoteIdleWitness ==
    /\ last.pending /\ Len(last.folds) = 1
    /\ last.folds[1].qbft /\ NoVote(last.headers[1])
    /\ last.folds[1].err = "nil"
    /\ ZeroAddress \notin last.folds[1].disc.Validators
    /\ Len(last.folds[1].pre.Votes) > Len(last.folds[1].post.Votes)

\* The signer apply reads off a header: the proposer in the coinbase of a
\* structured header, the signer of the seal of a legacy one (-1 when the
\* seal gives none).
SignerOf(header, qbft) ==
    IF qbft THEN header.Coinbase
    ELSE IF header.SealOK THEN header.Seal ELSE 0 - 1

\* The header's intent is neither of the two reserved values.
UnknownIntent(header, qbft) ==
    IF qbft
    THEN header.ExtraOK /\ header.HasVote
         /\ header.VoteType \notin {"QbftAuthVote", "QbftDropVote"}
    ELSE header.Nonce \notin {"nonceAuthVote", "nonceDropVote"}

\* The header's extension data cannot be decoded.
Undecodable(header, qbft) == qbft /\ ~header.ExtraOK

\* C17: a header of an authorized signer whose intent is neither reserved
\* value fails the whole apply with errInvalidVote; the signer is checked
\* first, so a header of a signer that is no validator fails with
\* errUnauthorized, also when its intent is unknown or its extension data
\* cannot be decoded.
ErrorOrder ==
    \A k \in 1..Len(last.folds) :
        \A f \in {last.folds[k]} :
            \A header \in {last.headers[k]} :
                \A signer \in {SignerOf(header, f.qbft)} :
                    /\ (signer \in f.pre.Validators /\ UnknownIntent(header, f.qbft)) =>
                           /\ f.err = "errInvalidVote"
                           /\ last.err = "errInvalidVote" /\ ~last.returned
                           /\ k = Len(last.folds)
                    /\ (signer # 0 - 1 /\ signer \notin f.pre.Validators) =>
                           /\ f.err = "errUnauthorized"
                           /\ last.err = "errUnauthorized" /\ ~last.returned
                           /\ k = Len(last.folds)
                    /\ f.err \in {"errInvalidVote", "errInvalidExtraDataFormat"} =>
                           signer \in f.pre.Validators

\* C17 witness: the second header of a run, from a signer that is no
\* validator and with an unknown intent, failed the call with errUnauthorized.
ErrorOrderWitness ==
    /\ last.pending /\ Len(last.folds) = 2
    /\ SignerOf(last.headers[2], last.folds[2].qbft) \notin last.folds[2].pre.Validators
    /\ SignerOf(last.headers[2], last.folds[2].qbft) # 0 - 1
    /\ UnknownIntent(last.headers[2], last.folds[2].qbft)
    /\ last.err = "errUnauthorized"

\* A header of a validator with an unknown intent failed the call.
InvalidVoteWitness ==
    /\ last.pending /\ Len(last.folds) = 2
    /\ UnknownIntent(last.headers[2], last.folds[2].qbft)
    /\ last.folds[2].qbft
    /\ last.err = "errInvalidVote"

\* A header of a signer that is no validator, with extension data that
\* cannot be decoded, failed the call.
UndecodableWitness ==
    /\ last.pending /\ Len(last.folds) >= 1
    /\ Undecodable(last.headers[Len(last.folds)], last.folds[Len(last.folds)].qbft)
    /\ last.err = "errUnauthorized"

\* C18: in every snapshot, the signer of every entry of the vote log is a
\* member of the validator set.
VotersAreValidators ==
    \A v \in Snapshots :
        \A i \in 1..Len(v.Votes) : v.Votes[i].Validator \in v.Validators

\* C18 witness: a call returned a snapshot from which a validator that had
\* votes in the log was removed, and votes of others remain.
VotersAreValidatorsWitness ==
    /\ last.pending /\ last.returned
    /\ \E k \in 1..Len(last.folds) :
           /\ Removed(last.folds[k])
           /\ VotesByOn(last.folds[k].mid.Votes, last.folds[k].target,
                        last.folds[k].target) = 1
    /\ Len(last.result.Votes) > 0

\* C19: how a run is cut into calls does not matter: for every cut of the
\* headers h1..hn, apply(S, h1..hn) and apply(apply(S, h1..hk), hk+1..hn)
\* either both fail, or both return snapshots with the same number, hash,
\* vote log, tally and validator set.
Batching ==
    last.pending =>
        \A k \in 0..Len(last.headers) :
            \A a \in {apply(heap, held[last.recv], SubSeq(last.headers, 1, k),
                             last.mode.isQBFT, last.mode.qbftBlock)} :
                IF ~a.returned THEN ~last.returned
                ELSE \A b \in {apply(a.heap, a.snap,
                                      SubSeq(last.headers, k + 1, Len(last.headers)),
                                      last.mode.isQBFT, last.mode.qbftBlock)} :
                         /\ b.returned <=> last.returned
                         /\ b.returned => View(b.heap, b.snap) = last.result

\* C19 witness: a run of several headers that changed the validator set was
\* applied in one call.
BatchingWitness ==
    /\ last.pending /\ last.returned
    /\ Len(last.headers) = MaxRun
    /\ last.result.Validators # last.before.Validators
    /\ Len(last.result.Votes) < Len(last.folds[Len(last.folds)].mid.Votes)

\* A run whose second header fails was applied in one call.
BatchingFailWitness ==
    /\ last.pending /\ ~last.returned
    /\ Len(last.folds) = 2

\* C20: membership changes only through an accepted vote: a fold whose
\* vote is rejected as a no-op (cast returns false, nothing is appended to
\* the log) leaves the validator set as it was before the fold.
RejectedVoteKeepsValidators ==
    \A k \in 1..Len(last.folds) :
        (last.folds[k].err = "nil" /\ ~last.folds[k].castOK) =>
            last.folds[k].post.Validators = last.folds[k].pre.Validators

\* C20, restated: after every fold, every remaining tally entry has a count
\* of at most half the validators.
TallyWithinHalf ==
    \A k \in 1..Len(last.folds) :
        last.folds[k].err = "nil" =>
            \A T \in DOMAIN last.folds[k].post.Tally :
                last.folds[k].post.Tally[T].Votes
                    <= Cardinality(last.folds[k].post.Validators) \div 2

====
